---- MODULE Spec2Model ----
(***************************************************************************)
(* Model of the file-backed metastore manifest                             *)
(* (quickwit-metastore/src/metastore/file_backed/manifest.rs):             *)
(* the versioned manifest codec, the legacy codec, load_or_create_manifest *)
(* with its lazy migration, save_manifest and the storage error            *)
(* classifier.  JSON documents are modelled as structured values: a file   *)
(* holds a record that says which JSON shape it has and carries the        *)
(* strings found in it, so that encoding and decoding are real             *)
(* conversions between enum values and status strings.                     *)
(***************************************************************************)
EXTENDS Integers, Sequences, FiniteSets, TLC

VARIABLES
    files,       \* the store: path -> content of the file, or NoFile
    pc,          \* per caller: the storage call the caller is suspended at
    op,          \* per caller: the public function being executed
    held,        \* per caller: the manifest the caller keeps in memory between calls
    manifest,    \* per caller: the local `manifest` of load_or_create_manifest
    result,      \* per caller: the value returned by the call
    trace,       \* per caller: the storage calls issued by the call, in order
    logged,      \* per caller: the storage error reported through error!()
    pre,         \* per caller: the store as it was when load_or_create_manifest began
    last_saved,  \* the manifest of the last successful top-level save_manifest, while
                 \* no other write reached manifest.json since
    history,     \* what happened on the store since the model started, while no
                 \* save_manifest call was made: the legacy file a legacy-only store
                 \* started with, whether a write of the migration failed, how many
                 \* writes of the migration succeeded, the manifest last loaded
    codec        \* the codec harness: an input, its encoding and its decoding

vars == <<files, pc, op, held, manifest, result, trace, logged, pre, last_saved, history,
          codec>>

----------------------------------------------------------------------------
(* Bounds of the model. *)

\* index identifiers are 1..MaxIndexId (test-index-1, test-index-2, ...)
MaxIndexId == 1
\* template identifiers, and the keys of the template map, are 1..MaxTemplateId
MaxTemplateId == 2
\* the codec harness draws its inputs from universes of its own
CodecMaxIndexId == 2
CodecMaxTemplateId == 2

\* the priorities of the templates of the store (IndexTemplate::for_test(.., 100))
\* and of the codec harness (.., 100 and .., 200)
Priorities == {100}
CodecPriorities == {100, 200}

----------------------------------------------------------------------------
(* File names. *)

MANIFEST_FILE_NAME == "manifest.json"
LEGACY_MANIFEST_FILE_NAME == "indexes_states.json"
Paths == {MANIFEST_FILE_NAME, LEGACY_MANIFEST_FILE_NAME}

----------------------------------------------------------------------------
(* Data types. *)

\* enum IndexStatus { Creating, Active, Deleting }
IndexStatus == {"IndexStatus::Creating", "IndexStatus::Active", "IndexStatus::Deleting"}

\* the strings that may stand for a status in a JSON document of the model;
\* "Active" and "alive" are not spellings the decoder knows
CanonicalStatusStrings == {"creating", "active", "deleting"}
LegacyStatusStrings == {"Creating", "Alive", "Active", "Deleting"}
StatusStrings == CanonicalStatusStrings \cup LegacyStatusStrings \cup {"alive"}

PartialFns(D, R) == UNION {[S -> R] : S \in SUBSET D}

\* IndexTemplate, as far as the manifest looks at it: its identifier and one payload field
IndexTemplates(maxId, priorities) ==
    [template_id : 1..maxId, priority : priorities]

\* struct Manifest { indexes: BTreeMap, templates: HashMap }; a template may sit
\* under a key that differs from its template_id
Manifests(maxIndex, maxId, priorities) ==
    [indexes : PartialFns(1..maxIndex, IndexStatus),
     templates : PartialFns(1..maxId, IndexTemplates(maxId, priorities))]

\* Manifest::default()
DefaultManifest == [indexes |-> <<>>, templates |-> <<>>]

\* the key/identifier invariant of a manifest
ValidManifest(m) == \A k \in DOMAIN m.templates : m.templates[k].template_id = k

----------------------------------------------------------------------------
(* serde: IndexStatus. *)

\* Serialize for IndexStatus under rename_all = "snake_case"
SerializeIndexStatus(s) ==
    CASE s = "IndexStatus::Creating" -> "creating"
      [] s = "IndexStatus::Active" -> "active"
      [] s = "IndexStatus::Deleting" -> "deleting"

\* the strings Deserialize for IndexStatus knows: the snake_case names and the aliases
KnownStatusString(str) ==
    str \in {"creating", "Creating", "active", "Alive", "deleting", "Deleting"}

\* Deserialize for IndexStatus, on a known string
DeserializeIndexStatus(str) ==
    CASE str \in {"creating", "Creating"} -> "IndexStatus::Creating"
      [] str \in {"active", "Alive"} -> "IndexStatus::Active"
      [] str \in {"deleting", "Deleting"} -> "IndexStatus::Deleting"

----------------------------------------------------------------------------
(* The versioned codec: Manifest <-> VersionedManifest::V0_7(ManifestV0_7). *)

\* the version tag of the one variant of VersionedManifest
CurrentVersion == "0.7"
\* a tag no variant of VersionedManifest carries
UnknownVersion == "0.8"
Versions == {CurrentVersion, UnknownVersion}

\* the orders in which HashMap::into_values may yield the values under the keys K
KeyOrders(K) ==
    {o \in [1..Cardinality(K) -> K] : \A i, j \in DOMAIN o : i # j => o[i] # o[j]}

\* the comparison handed to sorted_unstable_by
IsSortedByTemplateId(s) ==
    \A i \in 1..(Len(s) - 1) : s[i].template_id <= s[i + 1].template_id

\* a mutant of ToManifestV0_7: the templates are dropped
ToManifestV0_7_NoTemplates(m) ==
    {[indexes |-> m.indexes, templates |-> <<>>]}

\* a mutant of ToManifestV0_7: the values of the template map are not sorted
ToManifestV0_7_Unsorted(m) ==
    {[indexes |-> m.indexes,
      templates |-> [i \in 1..Cardinality(DOMAIN m.templates) |-> m.templates[o[i]]]] :
        o \in KeyOrders(DOMAIN m.templates)}

\* impl From<Manifest> for ManifestV0_7: the values of the template map, sorted by
\* template_id.  The hash map yields its values in any order and the sort is
\* unstable, so values with equal template_id may come out in either order: the
\* set of the sequences the conversion can produce.
ToManifestV0_7(m) ==
    {v \in {[indexes |-> m.indexes,
             templates |-> [i \in 1..Cardinality(DOMAIN m.templates) |-> m.templates[o[i]]]] :
                o \in KeyOrders(DOMAIN m.templates)} :
        IsSortedByTemplateId(v.templates)}

\* a mutant of LastWithId: the first template that carries the identifier is kept
LastWithId_First(s, id) ==
    CHOOSE i \in DOMAIN s :
        /\ s[i].template_id = id
        /\ \A j \in DOMAIN s : s[j].template_id = id => i <= j

\* the position of the last template of the sequence s that carries the identifier id
LastWithId(s, id) ==
    CHOOSE i \in DOMAIN s :
        /\ s[i].template_id = id
        /\ \A j \in DOMAIN s : s[j].template_id = id => j <= i

\* a mutant of FromManifestV0_7: templates are keyed by their position in the sequence
FromManifestV0_7_ByPosition(v) ==
    [indexes |-> v.indexes,
     templates |-> [i \in DOMAIN v.templates |-> v.templates[i]]]

\* impl From<ManifestV0_7> for Manifest: the indexes as they are, the templates
\* collected into a map keyed by template_id (a later entry replaces an earlier one)
FromManifestV0_7(v) ==
    [indexes |-> v.indexes,
     templates |-> [id \in {v.templates[i].template_id : i \in DOMAIN v.templates} |->
                        v.templates[LastWithId(v.templates, id)]]]

----------------------------------------------------------------------------
(* JSON documents. *)

\* no file at the path
NoFile == [kind |-> "none"]
\* a file that holds no JSON document (zero bytes)
EmptyBytes == [kind |-> "empty"]

\* the keys K of a BTreeMap in the order its iteration yields them: ascending
BTreeKeys(K) ==
    CHOOSE s \in KeyOrders(K) : \A i, j \in DOMAIN s : i < j => s[i] < s[j]

\* the JSON object {"version": ..., "indexes": {...}, "templates": [...]}: the
\* entries of "indexes" stand in the document in the order index_keys, and
\* indexes gives the status string of each key
VersionedJson(version, index_keys, indexes, templates) ==
    [kind |-> "versioned", version |-> version, index_keys |-> index_keys,
     indexes |-> indexes, templates |-> templates]

\* the documents with the given version, index entries and templates: the
\* entries of "indexes" in any order
VersionedJsons(version, indexes, templates) ==
    {VersionedJson(version, o, indexes, templates) : o \in KeyOrders(DOMAIN indexes)}

\* the flat JSON object {<index-id>: <status-string>, ...}
FlatJson(indexes) == [kind |-> "flat", indexes |-> indexes]

\* a mutant of SerializeVersionedManifest: the statuses are written in Pascal case
SerializeVersionedManifest_Pascal(v) ==
    VersionedJson(CurrentVersion,
                  BTreeKeys(DOMAIN v.indexes),
                  [i \in DOMAIN v.indexes |->
                      CASE v.indexes[i] = "IndexStatus::Creating" -> "Creating"
                        [] v.indexes[i] = "IndexStatus::Active" -> "Alive"
                        [] v.indexes[i] = "IndexStatus::Deleting" -> "Deleting"],
                  v.templates)

\* Serialize for VersionedManifest (tag = "version", rename = "0.7") over
\* ManifestV0_7: the entries of the BTreeMap indexes are written as the map yields
\* them, the templates as the sequence stands
SerializeVersionedManifest(v) ==
    VersionedJson(CurrentVersion,
                  BTreeKeys(DOMAIN v.indexes),
                  [i \in DOMAIN v.indexes |-> SerializeIndexStatus(v.indexes[i])],
                  v.templates)

\* serde_utils::to_json_bytes_pretty(manifest) with #[serde(into = "VersionedManifest")]:
\* the documents the serialization of m can produce
to_json_bytes_pretty(m) ==
    {SerializeVersionedManifest(v) : v \in ToManifestV0_7(m)}

\* results of a decoding
DecodeOk(value) == [kind |-> "ok", value |-> value]
DecodeError == [kind |-> "err", error |-> [type |-> "DecodeError"]]

\* a mutant of DeserializeManifest: an unknown version tag yields the default manifest
DeserializeManifest_DefaultOnUnknown(bytes) ==
    IF bytes.kind # "versioned" THEN DecodeError
    ELSE IF bytes.version # CurrentVersion THEN DecodeOk(DefaultManifest)
    ELSE IF \E i \in DOMAIN bytes.indexes : ~KnownStatusString(bytes.indexes[i])
    THEN DecodeError
    ELSE DecodeOk(FromManifestV0_7(
            [indexes |-> [i \in DOMAIN bytes.indexes |-> DeserializeIndexStatus(bytes.indexes[i])],
             templates |-> bytes.templates]))

\* serde_utils::from_json_bytes::<Manifest> with #[serde(from = "VersionedManifest")]:
\* the document must be an object tagged with the version of a known variant, and
\* every status string must be one IndexStatus knows; the entries of "indexes" are
\* collected into a BTreeMap, whatever their order in the document
DeserializeManifest(bytes) ==
    IF bytes.kind # "versioned" THEN DecodeError
    ELSE IF bytes.version # CurrentVersion THEN DecodeError
    ELSE IF \E i \in DOMAIN bytes.indexes : ~KnownStatusString(bytes.indexes[i])
    THEN DecodeError
    ELSE DecodeOk(FromManifestV0_7(
            [indexes |-> [i \in DOMAIN bytes.indexes |-> DeserializeIndexStatus(bytes.indexes[i])],
             templates |-> bytes.templates]))

----------------------------------------------------------------------------
(* The legacy codec. *)

\* a mutant of into_manifest: the indexes are lost
into_manifest_NoIndexes(legacy) ==
    [indexes |-> <<>>, templates |-> <<>>]

\* LegacyManifest::into_manifest
into_manifest(legacy) ==
    [indexes |-> legacy.indexes, templates |-> <<>>]

\* serde_utils::from_json_bytes::<LegacyManifest>: a flat object whose values are
\* status strings (#[serde(default, flatten)] indexes)
DeserializeLegacyManifest(bytes) ==
    IF bytes.kind # "flat" THEN DecodeError
    ELSE IF \E i \in DOMAIN bytes.indexes : ~KnownStatusString(bytes.indexes[i])
    THEN DecodeError
    ELSE DecodeOk([indexes |->
            [i \in DOMAIN bytes.indexes |-> DeserializeIndexStatus(bytes.indexes[i])]])

----------------------------------------------------------------------------
(* The storage capability and the error classifier. *)

\* StorageErrorKind, as far as the classifier tells the kinds apart
StorageErrorKinds == {"Unauthorized", "NotFound", "Io"}

\* a StorageError: its kind and the text its Display produces
StorageError(kind) == [kind |-> kind, text |-> "storage error: " \o kind]
StorageErrors == {StorageError(k) : k \in StorageErrorKinds}
NoError == [kind |-> "none", text |-> ""]

\* the outcomes of a storage call that changes the store: it succeeds and takes
\* effect, or it fails.  A call that is refused (unauthorized, not found) has no
\* effect; an I/O failure may strike before or after the effect reached the
\* store (a write is atomic for one file).
EffectOutcomes ==
    {[error |-> NoError, done |-> TRUE]}
        \cup {o \in [error : StorageErrors, done : BOOLEAN] : o.done => o.error.kind = "Io"}

\* the outcomes of a storage call that only reads
ReadOutcomes == {NoError} \cup StorageErrors

\* a mutant of into_metastore_error: every kind is reported as Internal
into_metastore_error_NoForbidden(storage_error, path, operation_name) ==
    [type |-> "Internal",
     message |-> [operation |-> operation_name, path |-> path],
     cause |-> storage_error.text]

\* fn into_metastore_error(storage_error, uri, path, operation_name); the model
\* has one store, so the uri is left out of the messages
into_metastore_error(storage_error, path, operation_name) ==
    IF storage_error.kind = "Unauthorized"
    THEN [type |-> "Forbidden",
          message |-> [operation |-> "access", path |-> path, reason |-> "unauthorized"]]
    ELSE [type |-> "Internal",
          message |-> [operation |-> operation_name, path |-> path],
          cause |-> storage_error.text]

\* values of MetastoreResult
NoResult == [kind |-> "none"]
Ok(value) == [kind |-> "ok", value |-> value]
Err(error) == [kind |-> "err", error |-> error]
\* the value of Ok(()) and the value of Ok(manifest)
Unit == [kind |-> "unit"]
Loaded(m) == [kind |-> "manifest", manifest |-> m]

\* one storage call in the trace of a call: which method, on which path, and the
\* error it returned (NoError when it succeeded)
Call(method, path, error) == [method |-> method, path |-> path, error |-> error]

\* what a caller holds when it holds no manifest
NoManifest == [kind |-> "none"]
Some(m) == [kind |-> "some", value |-> m]

\* the snapshot a caller holds while it is not inside load_or_create_manifest
NoSnapshot == [p \in Paths |-> [kind |-> "unknown"]]

----------------------------------------------------------------------------
(* Callers. *)

Callers == {"caller-1", "caller-2"}
\* the callers of the serialized specification: one call at a time
SerialCallers == {"caller-1"}

\* the history of a store on which nothing has happened yet
NoHistory == [legacy |-> NoFile, write_failed |-> FALSE, writes |-> 0, loaded |-> NoManifest]

\* the codec harness at rest
CodecOff == [phase |-> "off", input |-> NoManifest, bytes |-> NoFile, output |-> NoResult]

\* the contents manifest.json may have when the model starts
InitManifestFiles ==
    {NoFile, EmptyBytes}
        \cup UNION {VersionedJsons(v, i, t) :
                v \in Versions,
                i \in PartialFns(1..MaxIndexId, CanonicalStatusStrings),
                t \in UNION {[1..n -> IndexTemplates(MaxTemplateId, Priorities)] :
                                n \in 0..MaxTemplateId}}

\* the contents indexes_states.json may have when the model starts
InitLegacyFiles ==
    {NoFile, EmptyBytes}
        \cup {FlatJson(i) : i \in PartialFns(1..MaxIndexId, LegacyStatusStrings)}

\* a store holds both files only after a migration whose deletion failed, or when a
\* file of another version was put beside a legacy file: a manifest.json that
\* stands beside a legacy file at the start carries no templates
InitStores ==
    {f \in [Paths -> InitManifestFiles \cup InitLegacyFiles] :
        /\ f[MANIFEST_FILE_NAME] \in InitManifestFiles
        /\ f[LEGACY_MANIFEST_FILE_NAME] \in InitLegacyFiles
        /\ (f[LEGACY_MANIFEST_FILE_NAME] # NoFile /\ f[MANIFEST_FILE_NAME].kind = "versioned")
                => f[MANIFEST_FILE_NAME].templates = <<>>}

StoreInit ==
    /\ files \in InitStores
    /\ pc = [c \in Callers |-> "idle"]
    /\ op = [c \in Callers |-> "none"]
    /\ held = [c \in Callers |-> NoManifest]
    /\ manifest = [c \in Callers |-> NoManifest]
    /\ result = [c \in Callers |-> NoResult]
    /\ trace = [c \in Callers |-> <<>>]
    /\ logged = [c \in Callers |-> NoError]
    /\ pre = [c \in Callers |-> NoSnapshot]
    /\ last_saved = NoManifest
    /\ history = [NoHistory EXCEPT !.legacy = IF files[MANIFEST_FILE_NAME] = NoFile
                                              THEN files[LEGACY_MANIFEST_FILE_NAME]
                                              ELSE NoFile]

Init ==
    /\ StoreInit
    /\ codec = CodecOff

----------------------------------------------------------------------------
(* load_or_create_manifest and save_manifest, one action per storage call. *)

\* the call returns r and leaves the caller holding h in memory: the manifest a
\* successful load_or_create_manifest returned, else what the caller held already
Finish(c, r, h) ==
    /\ pc' = [pc EXCEPT ![c] = "done"]
    /\ result' = [result EXCEPT ![c] = r]
    /\ manifest' = [manifest EXCEPT ![c] = NoManifest]
    /\ held' = [held EXCEPT ![c] = h]

\* the call goes on to its next storage call, with m in its local `manifest`
Goto(c, label, m) ==
    /\ pc' = [pc EXCEPT ![c] = label]
    /\ manifest' = [manifest EXCEPT ![c] = m]
    /\ UNCHANGED <<result, held>>

\* the storage call is added to the trace of the call
Record(c, method, path, error) ==
    trace' = [trace EXCEPT ![c] = Append(@, Call(method, path, error))]

\* a mutant of LoadFileExistsManifest: the call goes on to the legacy file even
\* when manifest.json exists
LoadFileExistsManifest_SkipsManifest(c) ==
    /\ pc[c] = "idle"
    /\ op' = [op EXCEPT ![c] = "load_or_create_manifest"]
    /\ pre' = [pre EXCEPT ![c] = files]
    /\ \E e \in ReadOutcomes :
        /\ Record(c, "exists", MANIFEST_FILE_NAME, e)
        /\ IF e # NoError
           THEN Finish(c, Err(into_metastore_error(e, MANIFEST_FILE_NAME, "list")), held[c])
           ELSE Goto(c, "exists_legacy", NoManifest)
    /\ UNCHANGED <<files, logged, last_saved, history, codec>>

\* `if file_exists(storage, MANIFEST_FILE_NAME).await?`: the first storage call
LoadFileExistsManifest(c) ==
    /\ pc[c] = "idle"
    /\ op' = [op EXCEPT ![c] = "load_or_create_manifest"]
    /\ pre' = [pre EXCEPT ![c] = files]
    /\ \E e \in ReadOutcomes :
        /\ Record(c, "exists", MANIFEST_FILE_NAME, e)
        /\ IF e # NoError
           THEN Finish(c, Err(into_metastore_error(e, MANIFEST_FILE_NAME, "list")), held[c])
           ELSE Goto(c, IF files[MANIFEST_FILE_NAME] # NoFile
                        THEN "get_manifest" ELSE "exists_legacy", NoManifest)
    /\ UNCHANGED <<files, logged, last_saved, history, codec>>

\* a mutant of LoadGetManifest: a successful read of manifest.json also removes
\* the legacy file left beside it
LoadGetManifest_DeletesOrphan(c) ==
    /\ pc[c] = "get_manifest"
    /\ \E e \in ReadOutcomes :
        LET error == IF files[MANIFEST_FILE_NAME] = NoFile /\ e = NoError
                     THEN StorageError("NotFound") ELSE e
            decoded == DeserializeManifest(files[MANIFEST_FILE_NAME])
        IN  /\ Record(c, "get_all", MANIFEST_FILE_NAME, error)
            /\ IF error # NoError
               THEN Finish(c, Err(into_metastore_error(error, MANIFEST_FILE_NAME, "load")),
                           held[c])
               ELSE IF decoded.kind = "err"
               THEN Finish(c, Err(decoded.error), held[c])
               ELSE Finish(c, Ok(Loaded(decoded.value)), Some(decoded.value))
            /\ history' = IF error = NoError /\ decoded.kind = "ok"
                          THEN [history EXCEPT !.loaded = Some(decoded.value)]
                          ELSE history
            /\ files' = IF error = NoError /\ decoded.kind = "ok"
                        THEN [files EXCEPT ![LEGACY_MANIFEST_FILE_NAME] = NoFile]
                        ELSE files
    /\ UNCHANGED <<op, logged, pre, last_saved, codec>>

\* get_bytes(storage, MANIFEST_FILE_NAME), from_json_bytes and `return Ok(manifest)`
LoadGetManifest(c) ==
    /\ pc[c] = "get_manifest"
    /\ \E e \in ReadOutcomes :
        LET error == IF files[MANIFEST_FILE_NAME] = NoFile /\ e = NoError
                     THEN StorageError("NotFound") ELSE e
            decoded == DeserializeManifest(files[MANIFEST_FILE_NAME])
        IN  /\ Record(c, "get_all", MANIFEST_FILE_NAME, error)
            /\ IF error # NoError
               THEN Finish(c, Err(into_metastore_error(error, MANIFEST_FILE_NAME, "load")),
                           held[c])
               ELSE IF decoded.kind = "err"
               THEN Finish(c, Err(decoded.error), held[c])
               ELSE Finish(c, Ok(Loaded(decoded.value)), Some(decoded.value))
            /\ history' = IF error = NoError /\ decoded.kind = "ok"
                          THEN [history EXCEPT !.loaded = Some(decoded.value)]
                          ELSE history
    /\ UNCHANGED <<files, op, logged, pre, last_saved, codec>>

\* `if file_exists(storage, LEGACY_MANIFEST_FILE_NAME).await?`; when there is no
\* legacy file either, `let manifest = Manifest::default()`
LoadFileExistsLegacy(c) ==
    /\ pc[c] = "exists_legacy"
    /\ \E e \in ReadOutcomes :
        /\ Record(c, "exists", LEGACY_MANIFEST_FILE_NAME, e)
        /\ IF e # NoError
           THEN Finish(c, Err(into_metastore_error(e, LEGACY_MANIFEST_FILE_NAME, "list")),
                       held[c])
           ELSE IF files[LEGACY_MANIFEST_FILE_NAME] # NoFile
           THEN Goto(c, "get_legacy", NoManifest)
           ELSE Goto(c, "put_default", Some(DefaultManifest))
    /\ UNCHANGED <<files, op, logged, pre, last_saved, history, codec>>

\* a mutant of LoadGetLegacy: the legacy file is removed as soon as it is decoded,
\* before manifest.json is written
LoadGetLegacy_DeletesFirst(c) ==
    /\ pc[c] = "get_legacy"
    /\ \E e \in ReadOutcomes :
        LET error == IF files[LEGACY_MANIFEST_FILE_NAME] = NoFile /\ e = NoError
                     THEN StorageError("NotFound") ELSE e
            decoded == DeserializeLegacyManifest(files[LEGACY_MANIFEST_FILE_NAME])
        IN  /\ Record(c, "get_all", LEGACY_MANIFEST_FILE_NAME, error)
            /\ IF error # NoError
               THEN Finish(c, Err(into_metastore_error(error, LEGACY_MANIFEST_FILE_NAME, "load")),
                           held[c])
               ELSE IF decoded.kind = "err"
               THEN Finish(c, Err(decoded.error), held[c])
               ELSE Goto(c, "put_migrated", Some(into_manifest(decoded.value)))
            /\ files' = IF error = NoError /\ decoded.kind = "ok"
                        THEN [files EXCEPT ![LEGACY_MANIFEST_FILE_NAME] = NoFile]
                        ELSE files
    /\ UNCHANGED <<op, logged, pre, last_saved, history, codec>>

\* get_bytes(storage, LEGACY_MANIFEST_FILE_NAME), from_json_bytes and into_manifest
LoadGetLegacy(c) ==
    /\ pc[c] = "get_legacy"
    /\ \E e \in ReadOutcomes :
        LET error == IF files[LEGACY_MANIFEST_FILE_NAME] = NoFile /\ e = NoError
                     THEN StorageError("NotFound") ELSE e
            decoded == DeserializeLegacyManifest(files[LEGACY_MANIFEST_FILE_NAME])
        IN  /\ Record(c, "get_all", LEGACY_MANIFEST_FILE_NAME, error)
            /\ IF error # NoError
               THEN Finish(c, Err(into_metastore_error(error, LEGACY_MANIFEST_FILE_NAME, "load")),
                           held[c])
               ELSE IF decoded.kind = "err"
               THEN Finish(c, Err(decoded.error), held[c])
               ELSE Goto(c, "put_migrated", Some(into_manifest(decoded.value)))
    /\ UNCHANGED <<files, op, logged, pre, last_saved, history, codec>>

\* a mutant of put_bytes: the bytes never reach the store
put_bytes_Lost(c, content, out) ==
    /\ files' = files
    /\ Record(c, "put", MANIFEST_FILE_NAME, out.error)

\* a mutant of put_bytes: an empty file is written
put_bytes_Empty(c, content, out) ==
    /\ files' = IF out.done THEN [files EXCEPT ![MANIFEST_FILE_NAME] = EmptyBytes] ELSE files
    /\ Record(c, "put", MANIFEST_FILE_NAME, out.error)

\* a mutant of put_bytes: a write that fails after it took effect leaves a
\* truncated file
put_bytes_Torn(c, content, out) ==
    /\ files' = IF ~out.done THEN files
                ELSE [files EXCEPT ![MANIFEST_FILE_NAME] =
                                        IF out.error = NoError THEN content ELSE EmptyBytes]
    /\ Record(c, "put", MANIFEST_FILE_NAME, out.error)

\* a mutant of put_bytes: the file is created when there is none and is never
\* replaced, the first writer wins
put_bytes_CreateOnly(c, content, out) ==
    /\ files' = IF out.done /\ files[MANIFEST_FILE_NAME] = NoFile
                THEN [files EXCEPT ![MANIFEST_FILE_NAME] = content] ELSE files
    /\ Record(c, "put", MANIFEST_FILE_NAME, out.error)

\* put_bytes(storage, MANIFEST_FILE_NAME, content): storage.put replaces the file
\* as a whole when the write takes effect
put_bytes(c, content, out) ==
    /\ files' = IF out.done THEN [files EXCEPT ![MANIFEST_FILE_NAME] = content] ELSE files
    /\ Record(c, "put", MANIFEST_FILE_NAME, out.error)

\* save_manifest(storage, manifest): to_json_bytes_pretty, then put_bytes; any
\* write that reaches manifest.json ends the validity of last_saved, unless it is
\* the write of a top-level save_manifest that succeeds
save_manifest(c, m, out) ==
    /\ \E content \in to_json_bytes_pretty(m) : put_bytes(c, content, out)
    /\ last_saved' = IF out.error = NoError /\ pc[c] = "idle" THEN Some(m)
                     ELSE IF out.done THEN NoManifest
                     ELSE last_saved

\* the result save_manifest returns for the outcome of its storage call
SaveResult(out) ==
    IF out.error = NoError THEN Ok(Unit)
    ELSE Err(into_metastore_error(out.error, MANIFEST_FILE_NAME, "save"))

\* a mutant of LoadSaveMigrated: the error of the write is dropped and the
\* migration goes on to the deletion of the legacy file
LoadSaveMigrated_IgnoreError(c) ==
    /\ pc[c] = "put_migrated"
    /\ \E out \in EffectOutcomes :
        /\ save_manifest(c, manifest[c].value, out)
        /\ Goto(c, "delete_legacy", manifest[c])
        /\ history' = IF out.error # NoError
                      THEN [history EXCEPT !.write_failed = TRUE]
                      ELSE [history EXCEPT !.writes = @ + 1]
    /\ UNCHANGED <<op, logged, pre, codec>>

\* `save_manifest(storage, &manifest).await?` of the migration
LoadSaveMigrated(c) ==
    /\ pc[c] = "put_migrated"
    /\ \E out \in EffectOutcomes :
        /\ save_manifest(c, manifest[c].value, out)
        /\ IF out.error # NoError
           THEN Finish(c, SaveResult(out), held[c])
           ELSE Goto(c, "delete_legacy", manifest[c])
        /\ history' = IF out.error # NoError
                      THEN [history EXCEPT !.write_failed = TRUE]
                      ELSE [history EXCEPT !.writes = @ + 1]
    /\ UNCHANGED <<op, logged, pre, codec>>

\* a mutant of LoadDeleteLegacy: the error of the deletion is returned
LoadDeleteLegacy_Propagate(c) ==
    /\ pc[c] = "delete_legacy"
    /\ \E out \in EffectOutcomes :
        /\ files' = IF out.done THEN [files EXCEPT ![LEGACY_MANIFEST_FILE_NAME] = NoFile]
                    ELSE files
        /\ Record(c, "delete", LEGACY_MANIFEST_FILE_NAME, out.error)
        /\ logged' = [logged EXCEPT ![c] = out.error]
        /\ IF out.error # NoError
           THEN Finish(c, Err(into_metastore_error(out.error, LEGACY_MANIFEST_FILE_NAME,
                                                   "delete")), held[c])
           ELSE Finish(c, Ok(Loaded(manifest[c].value)), manifest[c])
        /\ history' = IF out.error # NoError THEN history
                      ELSE [history EXCEPT !.loaded = manifest[c]]
    /\ UNCHANGED <<op, pre, last_saved, codec>>

\* `if let Err(storage_error) = delete_file(storage, LEGACY_MANIFEST_FILE_NAME).await`
\* with its error!() and `return Ok(manifest)`
LoadDeleteLegacy(c) ==
    /\ pc[c] = "delete_legacy"
    /\ \E out \in EffectOutcomes :
        /\ files' = IF out.done THEN [files EXCEPT ![LEGACY_MANIFEST_FILE_NAME] = NoFile]
                    ELSE files
        /\ Record(c, "delete", LEGACY_MANIFEST_FILE_NAME, out.error)
        /\ logged' = [logged EXCEPT ![c] = out.error]
        /\ Finish(c, Ok(Loaded(manifest[c].value)), manifest[c])
        /\ history' = [history EXCEPT !.loaded = manifest[c]]
    /\ UNCHANGED <<op, pre, last_saved, codec>>

\* a mutant of LoadSaveDefault: the default manifest is returned without being
\* written
LoadSaveDefault_NotWritten(c) ==
    /\ pc[c] = "put_default"
    /\ \E out \in EffectOutcomes :
        /\ put_bytes_Lost(c, EmptyBytes, out)
        /\ IF out.error # NoError
           THEN Finish(c, SaveResult(out), held[c])
           ELSE Finish(c, Ok(Loaded(manifest[c].value)), manifest[c])
        /\ history' = IF out.error # NoError THEN history
                      ELSE [history EXCEPT !.loaded = manifest[c]]
    /\ UNCHANGED <<op, logged, pre, last_saved, codec>>

\* `save_manifest(storage, &manifest).await?; Ok(manifest)` of the first access
LoadSaveDefault(c) ==
    /\ pc[c] = "put_default"
    /\ \E out \in EffectOutcomes :
        /\ save_manifest(c, manifest[c].value, out)
        /\ IF out.error # NoError
           THEN Finish(c, SaveResult(out), held[c])
           ELSE Finish(c, Ok(Loaded(manifest[c].value)), manifest[c])
        /\ history' = IF out.error # NoError THEN history
                      ELSE [history EXCEPT !.loaded = manifest[c]]
    /\ UNCHANGED <<op, logged, pre, codec>>

\* BTreeMap::insert / HashMap::insert on a map held in memory
Insert(f, k, v) == [x \in (DOMAIN f) \cup {k} |-> IF x = k THEN v ELSE f[x]]
\* BTreeMap::remove / HashMap::remove
Remove(f, k) == [x \in (DOMAIN f) \ {k} |-> f[x]]

\* what a caller may make of the index map it holds before it saves: leave it, or
\* insert or remove one index
IndexChanges(indexes) ==
    {indexes}
        \cup {Insert(indexes, i, st) : i \in 1..MaxIndexId, st \in IndexStatus}
        \cup {Remove(indexes, i) : i \in DOMAIN indexes}

\* what a caller may make of the template map it holds before it saves: leave it,
\* or insert or remove one template (a template may be inserted under a key that is
\* not its template_id)
TemplateChanges(templates) ==
    {templates}
        \cup {Insert(templates, k, t) :
                k \in 1..MaxTemplateId, t \in IndexTemplates(MaxTemplateId, Priorities)}
        \cup {Remove(templates, k) : k \in DOMAIN templates}

\* the manifests a caller that holds m may hand to save_manifest: m with a change
\* of its indexes, a change of its templates, both or none
Mutations(m) ==
    {[indexes |-> i, templates |-> t] :
        i \in IndexChanges(m.indexes), t \in TemplateChanges(m.templates)}

\* the caller changes the manifest it holds and calls save_manifest(storage, &manifest):
\* the manifest is borrowed, the caller holds it whatever the call returns
SaveManifest(c) ==
    /\ pc[c] = "idle"
    /\ held[c] # NoManifest
    /\ op' = [op EXCEPT ![c] = "save_manifest"]
    /\ \E m \in Mutations(held[c].value), out \in EffectOutcomes :
        /\ save_manifest(c, m, out)
        /\ Finish(c, SaveResult(out), Some(m))
    /\ history' = NoHistory
    /\ UNCHANGED <<logged, pre, codec>>

\* the caller has taken the result, or has dropped the call: it is ready for its
\* next call
Return(c) ==
    /\ pc[c] \in {"done", "cancelled"}
    /\ pc' = [pc EXCEPT ![c] = "idle"]
    /\ op' = [op EXCEPT ![c] = "none"]
    /\ result' = [result EXCEPT ![c] = NoResult]
    /\ trace' = [trace EXCEPT ![c] = <<>>]
    /\ logged' = [logged EXCEPT ![c] = NoError]
    /\ pre' = [pre EXCEPT ![c] = NoSnapshot]
    /\ UNCHANGED <<files, held, manifest, last_saved, history, codec>>

\* the steps of one caller
Step(c) ==
    \/ LoadFileExistsManifest(c)
    \/ LoadGetManifest(c)
    \/ LoadFileExistsLegacy(c)
    \/ LoadGetLegacy(c)
    \/ LoadSaveMigrated(c)
    \/ LoadDeleteLegacy(c)
    \/ LoadSaveDefault(c)
    \/ SaveManifest(c)
    \/ Return(c)

\* calls are serialized: a single caller, one call at a time
Next == \E c \in SerialCallers : Step(c)

Spec == Init /\ [][Next]_vars

----------------------------------------------------------------------------
(* Cancellation: the future of load_or_create_manifest or of save_manifest is
   dropped, or the process stops, while one of its storage calls is in flight. *)

\* the storage call a load_or_create_manifest suspended at label issues
CallAt(label) ==
    CASE label = "get_manifest" -> [method |-> "get_all", path |-> MANIFEST_FILE_NAME]
      [] label = "exists_legacy" -> [method |-> "exists", path |-> LEGACY_MANIFEST_FILE_NAME]
      [] label = "get_legacy" -> [method |-> "get_all", path |-> LEGACY_MANIFEST_FILE_NAME]
      [] label = "put_migrated" -> [method |-> "put", path |-> MANIFEST_FILE_NAME]
      [] label = "put_default" -> [method |-> "put", path |-> MANIFEST_FILE_NAME]
      [] label = "delete_legacy" -> [method |-> "delete", path |-> LEGACY_MANIFEST_FILE_NAME]

\* what the trace holds for a storage call that never returned
Cancelled == [kind |-> "Cancelled", text |-> "cancelled"]

\* the stores a storage call of caller c dropped in flight may leave: a read
\* changes nothing, a write or a delete has taken effect as a whole or not at all
StoresAfterCancel(c) ==
    {files}
        \cup (IF pc[c] \in {"put_migrated", "put_default"}
              THEN {[files EXCEPT ![MANIFEST_FILE_NAME] = content] :
                        content \in to_json_bytes_pretty(manifest[c].value)}
              ELSE {})
        \cup (IF pc[c] = "delete_legacy"
              THEN {[files EXCEPT ![LEGACY_MANIFEST_FILE_NAME] = NoFile]}
              ELSE {})

\* load_or_create_manifest is dropped at its first storage call, the existence
\* check of manifest.json: nothing is returned and the store is as it was
CancelLoadAtStart(c) ==
    /\ pc[c] = "idle"
    /\ op' = [op EXCEPT ![c] = "load_or_create_manifest"]
    /\ pre' = [pre EXCEPT ![c] = files]
    /\ Record(c, "exists", MANIFEST_FILE_NAME, Cancelled)
    /\ pc' = [pc EXCEPT ![c] = "cancelled"]
    /\ UNCHANGED <<files, held, manifest, result, logged, last_saved, history, codec>>

\* load_or_create_manifest is dropped at the storage call it is suspended at: the
\* `.await` never resumes, the locals are lost and nothing is returned
CancelLoad(c) ==
    /\ pc[c] \in {"get_manifest", "exists_legacy", "get_legacy", "put_migrated",
                  "put_default", "delete_legacy"}
    /\ files' \in StoresAfterCancel(c)
    /\ Record(c, CallAt(pc[c]).method, CallAt(pc[c]).path, Cancelled)
    /\ pc' = [pc EXCEPT ![c] = "cancelled"]
    /\ manifest' = [manifest EXCEPT ![c] = NoManifest]
    /\ last_saved' = IF files'[MANIFEST_FILE_NAME] # files[MANIFEST_FILE_NAME]
                     THEN NoManifest ELSE last_saved
    /\ UNCHANGED <<op, held, result, logged, pre, history, codec>>

\* save_manifest is dropped at its storage.put: the caller keeps the manifest it
\* lent to the call, nothing is returned, and manifest.json is as it was or holds
\* the whole encoding of that manifest
CancelSave(c) ==
    /\ pc[c] = "idle"
    /\ held[c] # NoManifest
    /\ op' = [op EXCEPT ![c] = "save_manifest"]
    /\ \E m \in Mutations(held[c].value) :
        /\ files' \in {files} \cup {[files EXCEPT ![MANIFEST_FILE_NAME] = content] :
                                        content \in to_json_bytes_pretty(m)}
        /\ held' = [held EXCEPT ![c] = Some(m)]
    /\ Record(c, "put", MANIFEST_FILE_NAME, Cancelled)
    /\ pc' = [pc EXCEPT ![c] = "cancelled"]
    /\ last_saved' = IF files'[MANIFEST_FILE_NAME] # files[MANIFEST_FILE_NAME]
                     THEN NoManifest ELSE last_saved
    /\ history' = NoHistory
    /\ UNCHANGED <<manifest, result, logged, pre, codec>>

\* a call is dropped at one of its storage calls
Cancel(c) ==
    \/ CancelLoadAtStart(c)
    \/ CancelLoad(c)
    \/ CancelSave(c)

\* serialized calls, any of which may be dropped at a storage call
NextCancel ==
    \/ Next
    \/ \E c \in SerialCallers : Cancel(c)

SpecCancel == Init /\ [][NextCancel]_vars

----------------------------------------------------------------------------
(* Unsynchronized callers: two callers interleaved at their storage calls, on a
   storage that fails no call by itself. *)

\* the storage call the step has added to the trace of caller c did what the
\* store dictates: it succeeded, or it was a read of a file that does not exist
NoInjectedFailure(c) ==
    trace'[c] # <<>> =>
        LET last == trace'[c][Len(trace'[c])]
        IN  \/ last.error = NoError
            \/ /\ last = Call("get_all", last.path, StorageError("NotFound"))
               /\ files[last.path] = NoFile

\* the manifests a caller may hold when the unsynchronized calls begin: none, or
\* the manifest it loaded from the manifest.json of the store
HeldAtStart(store) ==
    LET decoded == DeserializeManifest(store[MANIFEST_FILE_NAME])
    IN  {NoManifest} \cup (IF decoded.kind = "ok" THEN {Some(decoded.value)} ELSE {})

\* two callers, each about to make one call on the same store
ConcurrentInit ==
    /\ files \in InitStores
    /\ pc = [c \in Callers |-> "idle"]
    /\ op = [c \in Callers |-> "none"]
    /\ held \in [Callers -> HeldAtStart(files)]
    /\ manifest = [c \in Callers |-> NoManifest]
    /\ result = [c \in Callers |-> NoResult]
    /\ trace = [c \in Callers |-> <<>>]
    /\ logged = [c \in Callers |-> NoError]
    /\ pre = [c \in Callers |-> NoSnapshot]
    /\ last_saved = NoManifest
    /\ history = [NoHistory EXCEPT !.legacy = IF files[MANIFEST_FILE_NAME] = NoFile
                                              THEN files[LEGACY_MANIFEST_FILE_NAME]
                                              ELSE NoFile]
    /\ codec = CodecOff

\* the steps of the one call of caller c, on a storage that fails no call
CallStep(c) ==
    \/ LoadFileExistsManifest(c) /\ NoInjectedFailure(c)
    \/ LoadGetManifest(c) /\ NoInjectedFailure(c)
    \/ LoadFileExistsLegacy(c) /\ NoInjectedFailure(c)
    \/ LoadGetLegacy(c) /\ NoInjectedFailure(c)
    \/ LoadSaveMigrated(c) /\ NoInjectedFailure(c)
    \/ LoadDeleteLegacy(c) /\ NoInjectedFailure(c)
    \/ LoadSaveDefault(c) /\ NoInjectedFailure(c)
    \/ SaveManifest(c) /\ NoInjectedFailure(c)

\* nothing serializes the callers: any caller takes its next step at any time
NextConcurrent == \E c \in Callers : CallStep(c)

SpecConcurrent == ConcurrentInit /\ [][NextConcurrent]_vars

----------------------------------------------------------------------------
(* The codec harness: the conversions applied to inputs drawn from bounded sets. *)

\* the sequences of at most n elements of S
SeqsUpTo(S, n) == UNION {[1..k -> S] : k \in 0..n}

\* the manifests handed to the encoder: every template under its own template_id
CodecManifests ==
    {m \in Manifests(CodecMaxIndexId, CodecMaxTemplateId, CodecPriorities) : ValidManifest(m)}

\* the documents handed to the decoder of manifest.json: any version tag, any
\* status string, index entries in any order, templates in any order and with
\* repeated identifiers
CodecJsonInputs ==
    UNION {VersionedJsons(v, i, t) :
        v \in Versions,
        i \in PartialFns(1..MaxIndexId, StatusStrings),
        t \in SeqsUpTo(IndexTemplates(CodecMaxTemplateId, CodecPriorities), CodecMaxTemplateId)}

\* the documents handed to the decoder of indexes_states.json
CodecLegacyInputs ==
    {FlatJson(i) : i \in PartialFns(1..CodecMaxIndexId, StatusStrings)}

CodecInit ==
    /\ files = [p \in Paths |-> NoFile]
    /\ pc = [c \in Callers |-> "idle"]
    /\ op = [c \in Callers |-> "none"]
    /\ held = [c \in Callers |-> NoManifest]
    /\ manifest = [c \in Callers |-> NoManifest]
    /\ result = [c \in Callers |-> NoResult]
    /\ trace = [c \in Callers |-> <<>>]
    /\ logged = [c \in Callers |-> NoError]
    /\ pre = [c \in Callers |-> NoSnapshot]
    /\ last_saved = NoManifest
    /\ history = NoHistory
    /\ codec \in {[CodecOff EXCEPT !.phase = "manifest", !.input = Some(m)] : m \in CodecManifests}
            \cup {[CodecOff EXCEPT !.phase = "json", !.bytes = b] : b \in CodecJsonInputs}
            \cup {[CodecOff EXCEPT !.phase = "legacy_json", !.bytes = b] : b \in CodecLegacyInputs}

StoreUnchanged ==
    UNCHANGED <<files, pc, op, held, manifest, result, trace, logged, pre, last_saved,
                history>>

\* serde_utils::to_json_bytes_pretty(&manifest)
CodecEncode ==
    /\ codec.phase = "manifest"
    /\ \E b \in to_json_bytes_pretty(codec.input.value) :
        codec' = [codec EXCEPT !.phase = "encoded", !.bytes = b]
    /\ StoreUnchanged

\* serde_utils::from_json_bytes::<Manifest> on the bytes just encoded
CodecDecode ==
    /\ codec.phase = "encoded"
    /\ codec' = [codec EXCEPT !.phase = "decoded", !.output = DeserializeManifest(codec.bytes)]
    /\ StoreUnchanged

\* serde_utils::from_json_bytes::<Manifest> on a given document
CodecDecodeJson ==
    /\ codec.phase = "json"
    /\ codec' = [codec EXCEPT !.phase = "json_decoded",
                              !.output = DeserializeManifest(codec.bytes)]
    /\ StoreUnchanged

\* serde_utils::from_json_bytes::<LegacyManifest> and into_manifest on a given document
CodecDecodeLegacy ==
    /\ codec.phase = "legacy_json"
    /\ codec' = [codec EXCEPT !.phase = "legacy_decoded",
                    !.output = LET decoded == DeserializeLegacyManifest(codec.bytes)
                               IN  IF decoded.kind = "err" THEN decoded
                                   ELSE DecodeOk(into_manifest(decoded.value))]
    /\ StoreUnchanged

CodecNext ==
    \/ CodecEncode
    \/ CodecDecode
    \/ CodecDecodeJson
    \/ CodecDecodeLegacy

SpecCodec == CodecInit /\ [][CodecNext]_vars

----------------------------------------------------------------------------
(* Properties. *)

\* the rearrangements of the sequence s
Rearrangements(s) == {[i \in DOMAIN s |-> s[o[i]]] : o \in KeyOrders(DOMAIN s)}

\* the call of caller c has returned from the public function f
Returned(c, f) == pc[c] = "done" /\ op[c] = f

\* every storage call of the call of caller c succeeded
AllCallsSucceeded(c) == \A i \in DOMAIN trace[c] : trace[c][i].error = NoError

\* C3: for every manifest m whose template keys equal the template_id of their
\* values, decoding the encoding of m yields m, the same index-to-status mapping
\* and the same template mapping, and so does decoding the encoding with its
\* template sequence rearranged in any order.
C3_RoundTrip ==
    (codec.phase = "decoded" /\ ValidManifest(codec.input.value)) =>
        /\ codec.output = DecodeOk(codec.input.value)
        /\ codec.output.value.indexes = codec.input.value.indexes
        /\ codec.output.value.templates = codec.input.value.templates
        /\ \A t \in Rearrangements(codec.bytes.templates) :
                DeserializeManifest([codec.bytes EXCEPT !.templates = t])
                    = DecodeOk(codec.input.value)

\* a manifest with two indexes and two templates of different priorities went
\* through the encoder and the decoder
C3_Witness ==
    /\ codec.phase = "decoded"
    /\ ValidManifest(codec.input.value)
    /\ Cardinality(DOMAIN codec.input.value.templates) = 2
    /\ Cardinality(DOMAIN codec.input.value.indexes) = 2
    /\ \E k1, k2 \in DOMAIN codec.input.value.templates :
            codec.input.value.templates[k1].priority # codec.input.value.templates[k2].priority
    /\ codec.output.kind = "ok"

\* the store held only a legacy file, a flat object, when the call of caller c began
LegacyOnlyAtStart(c) ==
    /\ pre[c][MANIFEST_FILE_NAME] = NoFile
    /\ pre[c][LEGACY_MANIFEST_FILE_NAME].kind = "flat"

\* the manifest m carries exactly the entries of the flat object legacy, read with
\* "Creating" as Creating, "Alive" as Active and "Deleting" as Deleting, and no template
IsMigrationOf(m, legacy) ==
    /\ DOMAIN m.indexes = DOMAIN legacy.indexes
    /\ \A i \in DOMAIN legacy.indexes :
        /\ legacy.indexes[i] = "Creating" => m.indexes[i] = "IndexStatus::Creating"
        /\ legacy.indexes[i] = "Alive" => m.indexes[i] = "IndexStatus::Active"
        /\ legacy.indexes[i] = "Deleting" => m.indexes[i] = "IndexStatus::Deleting"
    /\ DOMAIN m.templates = {}

\* C1: after any successful load_or_create_manifest, whatever the store held at
\* the start and whatever the outcome of the deletion of the legacy file, the
\* store holds a manifest.json that decodes to the manifest the call returned.
C1_StoreHoldsReturnedManifest ==
    \A c \in Callers :
        (Returned(c, "load_or_create_manifest") /\ result[c].kind = "ok") =>
            /\ files[MANIFEST_FILE_NAME] # NoFile
            /\ DeserializeManifest(files[MANIFEST_FILE_NAME])
                    = DecodeOk(result[c].value.manifest)

\* a migration that returned a manifest with an index although the deletion of
\* the legacy file failed
C1_Witness ==
    \E c \in Callers :
        /\ Returned(c, "load_or_create_manifest")
        /\ result[c].kind = "ok"
        /\ LegacyOnlyAtStart(c)
        /\ logged[c] # NoError
        /\ files[LEGACY_MANIFEST_FILE_NAME] # NoFile
        /\ DOMAIN result[c].value.manifest.indexes # {}

\* C2: on a store that holds only the legacy file, with every storage call
\* succeeding, load_or_create_manifest returns the entries of the legacy file
\* ("Alive" read as Active) and no template; afterwards the legacy file is gone
\* and manifest.json exists.
C2_LegacyMigration ==
    \A c \in Callers :
        ( /\ Returned(c, "load_or_create_manifest")
          /\ LegacyOnlyAtStart(c)
          /\ \A i \in DOMAIN pre[c][LEGACY_MANIFEST_FILE_NAME].indexes :
                pre[c][LEGACY_MANIFEST_FILE_NAME].indexes[i] \in {"Creating", "Alive", "Deleting"}
          /\ AllCallsSucceeded(c) ) =>
            /\ result[c].kind = "ok"
            /\ IsMigrationOf(result[c].value.manifest, pre[c][LEGACY_MANIFEST_FILE_NAME])
            /\ files[LEGACY_MANIFEST_FILE_NAME] = NoFile
            /\ files[MANIFEST_FILE_NAME] # NoFile

\* a migration of a legacy file with an "Alive" entry, every storage call succeeding
C2_Witness ==
    \E c \in Callers :
        /\ Returned(c, "load_or_create_manifest")
        /\ LegacyOnlyAtStart(c)
        /\ AllCallsSucceeded(c)
        /\ \E i \in DOMAIN pre[c][LEGACY_MANIFEST_FILE_NAME].indexes :
                pre[c][LEGACY_MANIFEST_FILE_NAME].indexes[i] = "Alive"
        /\ result[c].kind = "ok"
        /\ Len(trace[c]) = 5

\* C4: save_manifest overwrites manifest.json with the encoding of the manifest
\* it is given, and after a successful save_manifest of a valid manifest m with no
\* other write in between, the next load_or_create_manifest returns exactly m,
\* whether or not a legacy file is present.
C4_SaveThenLoad ==
    \A c \in Callers :
        /\ (Returned(c, "save_manifest") /\ result[c].kind = "ok") =>
                /\ last_saved # NoManifest
                /\ files[MANIFEST_FILE_NAME] \in to_json_bytes_pretty(last_saved.value)
        /\ ( /\ Returned(c, "load_or_create_manifest")
             /\ result[c].kind = "ok"
             /\ last_saved # NoManifest
             /\ ValidManifest(last_saved.value) ) =>
                result[c].value.manifest = last_saved.value

\* a load after the save of a valid manifest with an index and two templates,
\* beside a legacy file
C4_Witness ==
    \E c \in Callers :
        /\ Returned(c, "load_or_create_manifest")
        /\ result[c].kind = "ok"
        /\ last_saved # NoManifest
        /\ ValidManifest(last_saved.value)
        /\ DOMAIN last_saved.value.indexes # {}
        /\ Cardinality(DOMAIN last_saved.value.templates) = 2
        /\ files[LEGACY_MANIFEST_FILE_NAME] # NoFile

\* C5: on a store that holds neither file, a successful load_or_create_manifest
\* returns a manifest without indexes and without templates and leaves a
\* manifest.json with non-empty content, the encoding of the empty manifest;
\* it creates no legacy file.
C5_FirstAccess ==
    \A c \in Callers :
        ( /\ Returned(c, "load_or_create_manifest")
          /\ result[c].kind = "ok"
          /\ pre[c][MANIFEST_FILE_NAME] = NoFile
          /\ pre[c][LEGACY_MANIFEST_FILE_NAME] = NoFile ) =>
            /\ DOMAIN result[c].value.manifest.indexes = {}
            /\ DOMAIN result[c].value.manifest.templates = {}
            /\ files[MANIFEST_FILE_NAME] \notin {NoFile, EmptyBytes}
            /\ files[MANIFEST_FILE_NAME] = VersionedJson("0.7", <<>>, <<>>, <<>>)
            /\ files[LEGACY_MANIFEST_FILE_NAME] = NoFile

\* a successful first access on an empty store
C5_Witness ==
    \E c \in Callers :
        /\ Returned(c, "load_or_create_manifest")
        /\ result[c].kind = "ok"
        /\ pre[c][MANIFEST_FILE_NAME] = NoFile
        /\ pre[c][LEGACY_MANIFEST_FILE_NAME] = NoFile
        /\ Len(trace[c]) = 3

\* C6: when the deletion of the legacy file fails with any storage error, an
\* unauthorized one included, load_or_create_manifest still returns Ok with the
\* migrated manifest; the error is logged only and the written manifest.json is kept.
C6_DeleteFailureSwallowed ==
    \A c \in Callers :
        \A i \in DOMAIN trace[c] :
            ( /\ Returned(c, "load_or_create_manifest")
              /\ trace[c][i].method = "delete"
              /\ trace[c][i].error # NoError ) =>
                /\ result[c].kind = "ok"
                /\ IsMigrationOf(result[c].value.manifest, pre[c][LEGACY_MANIFEST_FILE_NAME])
                /\ logged[c] = trace[c][i].error
                /\ files[MANIFEST_FILE_NAME] \in to_json_bytes_pretty(result[c].value.manifest)

\* a migration whose deletion failed as unauthorized
C6_Witness ==
    \E c \in Callers :
        /\ Returned(c, "load_or_create_manifest")
        /\ \E i \in DOMAIN trace[c] :
            /\ trace[c][i].method = "delete"
            /\ trace[c][i].error.kind = "Unauthorized"
        /\ DOMAIN pre[c][LEGACY_MANIFEST_FILE_NAME].indexes # {}

\* the classification the claim C7 describes of a storage error
IsClassified(error, storage_error) ==
    /\ storage_error.kind = "Unauthorized" => error.type = "Forbidden"
    /\ storage_error.kind # "Unauthorized" =>
            /\ error.type = "Internal"
            /\ error.cause = storage_error.text

\* C7 as stated: a failure of any storage call of load_or_create_manifest or
\* save_manifest, existence check, read, write or delete, surfaces to the caller,
\* as Forbidden when it is unauthorized and else as Internal with the text of the
\* storage error as its cause.
C7_EveryFailureSurfaces ==
    \A c \in Callers :
        \A i \in DOMAIN trace[c] :
            (pc[c] = "done" /\ trace[c][i].error # NoError) =>
                /\ result[c].kind = "err"
                /\ IsClassified(result[c].error, trace[c][i].error)

\* C7, amended: a failure of an existence check, a read or a write surfaces to the
\* caller, as Forbidden when it is unauthorized and else as Internal with the
\* text of the storage error as its cause; a failure of the deletion of the legacy
\* file is never returned; and every error returned is Forbidden, Internal or a
\* decode error.
C7_FailuresClassified ==
    \A c \in Callers :
        pc[c] = "done" =>
            /\ \A i \in DOMAIN trace[c] :
                trace[c][i].error # NoError =>
                    IF trace[c][i].method = "delete"
                    THEN result[c].kind = "ok"
                    ELSE /\ result[c].kind = "err"
                         /\ IsClassified(result[c].error, trace[c][i].error)
            /\ result[c].kind = "err" =>
                    result[c].error.type \in {"Forbidden", "Internal", "DecodeError"}
            /\ (result[c].kind = "err" /\ result[c].error.type # "DecodeError") =>
                    \E i \in DOMAIN trace[c] : trace[c][i].error # NoError

\* a save_manifest refused as unauthorized has returned
C7_Witness ==
    \E c \in Callers :
        /\ Returned(c, "save_manifest")
        /\ \E i \in DOMAIN trace[c] : trace[c][i].error.kind = "Unauthorized"
        /\ result[c].kind = "err"

\* C8: when manifest.json carries a version tag other than "0.7",
\* load_or_create_manifest fails, with a decode error when its storage calls
\* succeed; it returns no manifest, touches no legacy file and leaves both files
\* as they were.
C8_UnknownVersion ==
    \A c \in Callers :
        ( /\ Returned(c, "load_or_create_manifest")
          /\ pre[c][MANIFEST_FILE_NAME].kind = "versioned"
          /\ pre[c][MANIFEST_FILE_NAME].version # "0.7" ) =>
            /\ result[c].kind = "err"
            /\ AllCallsSucceeded(c) => result[c].error.type = "DecodeError"
            /\ files = pre[c]
            /\ \A i \in DOMAIN trace[c] :
                /\ trace[c][i].path = MANIFEST_FILE_NAME
                /\ trace[c][i].method \in {"exists", "get_all"}

\* a load of a manifest.json of another version, beside a legacy file, has failed
\* with a decode error
C8_Witness ==
    \E c \in Callers :
        /\ Returned(c, "load_or_create_manifest")
        /\ pre[c][MANIFEST_FILE_NAME].kind = "versioned"
        /\ pre[c][MANIFEST_FILE_NAME].version # "0.7"
        /\ pre[c][LEGACY_MANIFEST_FILE_NAME].kind = "flat"
        /\ AllCallsSucceeded(c)
        /\ result[c].kind = "err"

\* C9: the legacy decoder accepts each of "Creating", "Alive", "Active" and
\* "Deleting" and maps them to Creating, Active, Active and Deleting.
C9_FourSpellings ==
    ( /\ codec.phase = "legacy_decoded"
      /\ \A i \in DOMAIN codec.bytes.indexes :
            codec.bytes.indexes[i] \in {"Creating", "Alive", "Active", "Deleting"} ) =>
        /\ codec.output.kind = "ok"
        /\ IsMigrationOf(codec.output.value, codec.bytes)
        /\ \A i \in DOMAIN codec.bytes.indexes :
            codec.bytes.indexes[i] = "Active" =>
                codec.output.value.indexes[i] = "IndexStatus::Active"

\* a legacy document whose entries are among the four spellings, one of them
\* "Active", has been decoded, and the decoder has refused it
C9_Witness ==
    /\ codec.phase = "legacy_decoded"
    /\ \A i \in DOMAIN codec.bytes.indexes :
            codec.bytes.indexes[i] \in {"Creating", "Alive", "Active", "Deleting"}
    /\ \E i \in DOMAIN codec.bytes.indexes : codec.bytes.indexes[i] = "Active"
    /\ codec.output = DecodeError

\* the status strings of the document bytes
StatusesOf(bytes) == {bytes.indexes[i] : i \in DOMAIN bytes.indexes}

\* C10: "Alive" decodes to Active, and every status written to manifest.json is
\* one of "creating", "active", "deleting": the migration stores a legacy "Alive"
\* entry as "active".
C10_CanonicalOutput ==
    [][ files'[MANIFEST_FILE_NAME] # files[MANIFEST_FILE_NAME] =>
            /\ files'[MANIFEST_FILE_NAME].kind = "versioned"
            /\ StatusesOf(files'[MANIFEST_FILE_NAME]) \subseteq {"creating", "active", "deleting"}
            /\ \A c \in Callers :
                (pc[c] = "put_migrated" /\ pc'[c] # "put_migrated") =>
                    \A i \in DOMAIN files[LEGACY_MANIFEST_FILE_NAME].indexes :
                        files[LEGACY_MANIFEST_FILE_NAME].indexes[i] = "Alive" =>
                            /\ manifest[c].value.indexes[i] = "IndexStatus::Active"
                            /\ files'[MANIFEST_FILE_NAME].indexes[i] = "active" ]_vars

\* a migration of a legacy file with an "Alive" entry has written manifest.json
C10_Witness ==
    \E c \in Callers :
        /\ Returned(c, "load_or_create_manifest")
        /\ LegacyOnlyAtStart(c)
        /\ files[MANIFEST_FILE_NAME].kind = "versioned"
        /\ \E i \in DOMAIN pre[c][LEGACY_MANIFEST_FILE_NAME].indexes :
            /\ pre[c][LEGACY_MANIFEST_FILE_NAME].indexes[i] = "Alive"
            /\ files[MANIFEST_FILE_NAME].indexes[i] = "active"

\* C11: whenever manifest.json exists when load_or_create_manifest begins, the
\* call issues only the existence check and the read of manifest.json, no write and
\* no delete and nothing on indexes_states.json, and leaves both files as they
\* were, whether the decoding succeeds or fails; a legacy file left beside
\* manifest.json by a failed deletion is therefore never deleted by a later call.
C11_ManifestPresentReadOnly ==
    \A c \in Callers :
        (op[c] = "load_or_create_manifest" /\ pre[c][MANIFEST_FILE_NAME] # NoFile) =>
            /\ files = pre[c]
            /\ Len(trace[c]) <= 2
            /\ \A i \in DOMAIN trace[c] :
                /\ trace[c][i].path = MANIFEST_FILE_NAME
                /\ trace[c][i].method = (IF i = 1 THEN "exists" ELSE "get_all")
            /\ (pc[c] = "done" /\ AllCallsSucceeded(c)) =>
                    LET decoded == DeserializeManifest(pre[c][MANIFEST_FILE_NAME])
                    IN  result[c] = IF decoded.kind = "ok" THEN Ok(Loaded(decoded.value))
                                    ELSE Err(decoded.error)

\* a call has read a manifest.json that stands beside a legacy file, and returned it
C11_Witness ==
    \E c \in Callers :
        /\ Returned(c, "load_or_create_manifest")
        /\ pre[c][MANIFEST_FILE_NAME].kind = "versioned"
        /\ pre[c][LEGACY_MANIFEST_FILE_NAME].kind = "flat"
        /\ result[c].kind = "ok"
        /\ Len(trace[c]) = 2

\* the last storage call of the call of caller c was a write that failed
WriteFailed(c) ==
    /\ trace[c] # <<>>
    /\ trace[c][Len(trace[c])].method = "put"
    /\ trace[c][Len(trace[c])].error # NoError

\* bytes is the whole encoding of the manifest m; the first three conjuncts follow
\* from the last and are there to decide most cases without encoding m
IsEncodingOf(bytes, m) ==
    /\ bytes.kind = "versioned"
    /\ DOMAIN bytes.indexes = DOMAIN m.indexes
    /\ Len(bytes.templates) = Cardinality(DOMAIN m.templates)
    /\ bytes \in to_json_bytes_pretty(m)

\* a migration write has failed and no migration write has succeeded since
MigrationWritePending == history.write_failed /\ history.writes = 0

\* what C13 says of the failing call: it returns the classified error of the
\* write, issues no delete and leaves the legacy file as it was; the legacy file
\* stays in place until a migration write succeeds
FailedWriteKeepsLegacy ==
    /\ \A c \in Callers :
        (Returned(c, "load_or_create_manifest") /\ LegacyOnlyAtStart(c) /\ WriteFailed(c)) =>
            /\ result[c] = Err(into_metastore_error(trace[c][Len(trace[c])].error,
                                                    MANIFEST_FILE_NAME, "save"))
            /\ \A i \in DOMAIN trace[c] : trace[c][i].method # "delete"
            /\ files[LEGACY_MANIFEST_FILE_NAME] = pre[c][LEGACY_MANIFEST_FILE_NAME]
    /\ MigrationWritePending => files[LEGACY_MANIFEST_FILE_NAME] = history.legacy

\* the call of caller c found no manifest.json, found the legacy file as it was
\* before the failed write, and wrote manifest.json
RepeatsMigration(c) ==
    /\ pre[c][MANIFEST_FILE_NAME] = NoFile
    /\ pre[c][LEGACY_MANIFEST_FILE_NAME] = history.legacy
    /\ \E i \in DOMAIN trace[c] : trace[c][i] = Call("put", MANIFEST_FILE_NAME, NoError)

\* the call of caller c found a manifest.json, issued the existence check and the
\* read of manifest.json and nothing else, and left both files as they were
ReadsManifestOnly(c) ==
    /\ pre[c][MANIFEST_FILE_NAME] # NoFile
    /\ trace[c] = << Call("exists", MANIFEST_FILE_NAME, NoError),
                     Call("get_all", MANIFEST_FILE_NAME, NoError) >>
    /\ files = pre[c]

\* C13 as stated: when the write of manifest.json fails during a migration, the
\* call returns the classified error, issues no delete and leaves the legacy file
\* as it was, so that a later call finds the legacy file again and repeats the
\* migration with the same result: every call that succeeds after the failed
\* write returns the migration of the legacy file, and has repeated the migration
\* unless a repeated migration has already written manifest.json.
C13_LaterCallRepeatsMigration ==
    /\ FailedWriteKeepsLegacy
    /\ \A c \in Callers :
        (history.write_failed /\ Returned(c, "load_or_create_manifest")
                /\ result[c].kind = "ok") =>
            /\ IsMigrationOf(result[c].value.manifest, history.legacy)
            /\ RepeatsMigration(c) \/ history.writes >= 1

\* C13, amended: when the write of manifest.json fails during a migration, the
\* call returns the classified error, issues no delete and leaves the legacy file
\* as it was; every call that succeeds after the failed write returns the
\* migration of that legacy file.  Such a call repeats the migration when it
\* finds no manifest.json; when the write that was reported as failed had in fact
\* replaced manifest.json, the call reads that manifest.json, issues no other
\* storage call, and the legacy file stays in place.
C13_FailedMigrationWrite ==
    /\ FailedWriteKeepsLegacy
    /\ \A c \in Callers :
        (history.write_failed /\ Returned(c, "load_or_create_manifest")
                /\ result[c].kind = "ok") =>
            /\ IsMigrationOf(result[c].value.manifest, history.legacy)
            /\ pre[c][MANIFEST_FILE_NAME] = NoFile => RepeatsMigration(c)
            /\ (pre[c][MANIFEST_FILE_NAME] # NoFile /\ history.writes = 0) =>
                    /\ ReadsManifestOnly(c)
                    /\ files[LEGACY_MANIFEST_FILE_NAME] = history.legacy
                    /\ IsEncodingOf(files[MANIFEST_FILE_NAME], result[c].value.manifest)

\* after a migration whose write failed, a later call has found the legacy file
\* again, with no manifest.json, and has migrated it
C13_Witness ==
    \E c \in Callers :
        /\ history.write_failed
        /\ Returned(c, "load_or_create_manifest")
        /\ result[c].kind = "ok"
        /\ pre[c][MANIFEST_FILE_NAME] = NoFile
        /\ pre[c][LEGACY_MANIFEST_FILE_NAME] = history.legacy
        /\ DOMAIN history.legacy.indexes # {}
        /\ IsMigrationOf(result[c].value.manifest, history.legacy)

\* after a migration whose write was reported as failed but had replaced
\* manifest.json, a later call has read that manifest.json beside the legacy file
C13_WrittenAfterAll ==
    \E c \in Callers :
        /\ MigrationWritePending
        /\ Returned(c, "load_or_create_manifest")
        /\ result[c].kind = "ok"
        /\ ReadsManifestOnly(c)
        /\ DOMAIN history.legacy.indexes # {}
        /\ files[LEGACY_MANIFEST_FILE_NAME] = history.legacy

\* bytes is the complete new content of the write that the step of caller c
\* beginning in the current state issues: an encoding of the manifest being saved
IsNewContent(c, bytes) ==
    IF pc[c] \in {"put_migrated", "put_default"} THEN IsEncodingOf(bytes, manifest[c].value)
    ELSE /\ pc[c] = "idle"
         /\ held[c] # NoManifest
         /\ \E m \in Mutations(held[c].value) : IsEncodingOf(bytes, m)

\* C14: a load_or_create_manifest or save_manifest call that fails leaves
\* manifest.json with the content it had before the call or with the complete new
\* content, and leaves the legacy file as it was; a call that fails at an existence
\* check, a read or a decode has written nothing and deleted nothing, and both
\* files are as they were before the call.
C14_FailedCallsLeaveWholeFiles ==
    [][ \A c \in Callers :
            (pc[c] # "done" /\ pc'[c] = "done" /\ result'[c].kind = "err") =>
                LET before == IF op'[c] = "load_or_create_manifest" THEN pre'[c] ELSE files
                    last == trace'[c][Len(trace'[c])]
                IN  /\ files'[LEGACY_MANIFEST_FILE_NAME] = before[LEGACY_MANIFEST_FILE_NAME]
                    /\ \/ files'[MANIFEST_FILE_NAME] = before[MANIFEST_FILE_NAME]
                       \/ IsNewContent(c, files'[MANIFEST_FILE_NAME])
                    /\ last.method \in {"exists", "get_all"} =>
                            /\ files' = before
                            /\ \A i \in DOMAIN trace'[c] :
                                    trace'[c][i].method \in {"exists", "get_all"} ]_vars

\* a write that failed has left the complete new content in manifest.json
C14_Witness ==
    \E c \in Callers :
        /\ pc[c] = "done"
        /\ result[c].kind = "err"
        /\ WriteFailed(c)
        /\ files[MANIFEST_FILE_NAME].kind = "versioned"
        /\ op[c] = "load_or_create_manifest" =>
                files[MANIFEST_FILE_NAME] # pre[c][MANIFEST_FILE_NAME]
        /\ op[c] = "save_manifest" => last_saved = NoManifest

\* C15: under serialized calls, a successful load_or_create_manifest that follows
\* a successful one with no save_manifest in between returns the manifest the
\* earlier call returned, issues no write and leaves both files as they were when
\* it began, whatever the store held at first; the write of a migration succeeds
\* at most once on a store.
C15_Idempotent ==
    [][ /\ \A c \in Callers :
            (pc[c] # "done" /\ pc'[c] = "done" /\ op'[c] = "load_or_create_manifest"
                    /\ result'[c].kind = "ok" /\ history.loaded # NoManifest) =>
                /\ result'[c] = Ok(Loaded(history.loaded.value))
                /\ files' = pre'[c]
                /\ files' = files
                /\ \A i \in DOMAIN trace'[c] : trace'[c][i].method \in {"exists", "get_all"}
        /\ history'.writes <= 1 ]_vars

\* after a migration whose write succeeded, a later call has returned the same
\* manifest from manifest.json
C15_Witness ==
    \E c \in Callers :
        /\ Returned(c, "load_or_create_manifest")
        /\ history.writes = 1
        /\ pre[c][MANIFEST_FILE_NAME] # NoFile
        /\ history.loaded # NoManifest
        /\ result[c] = Ok(Loaded(history.loaded.value))
        /\ DOMAIN history.loaded.value.indexes # {}
        /\ files = pre[c]

\* C20: every manifest returned by a successful load_or_create_manifest has each
\* template stored under its own template_id, after any sequence of save_manifest
\* and load_or_create_manifest calls, also when the manifest last saved had a
\* template under another key: the manifest loaded back is keyed by template_id.
C20_LoadedKeysAreTemplateIds ==
    \A c \in Callers :
        (Returned(c, "load_or_create_manifest") /\ result[c].kind = "ok") =>
            ValidManifest(result[c].value.manifest)

\* a manifest with a template under a key that is not its template_id was saved,
\* and the call that loaded it back returned that template under its template_id
C20_Witness ==
    \E c \in Callers :
        /\ Returned(c, "load_or_create_manifest")
        /\ result[c].kind = "ok"
        /\ last_saved # NoManifest
        /\ \E k \in DOMAIN last_saved.value.templates :
            /\ last_saved.value.templates[k].template_id # k
            /\ last_saved.value.templates[k].template_id \in
                    DOMAIN result[c].value.manifest.templates

\* C12: in a migration the delete of indexes_states.json is issued only after the
\* write of manifest.json has returned successfully, so at every point of a call
\* that began on a legacy-only store, a call dropped at any storage call included,
\* the legacy file is as it was or manifest.json holds the migrated legacy
\* indexes; after a call dropped once its write was done manifest.json exists, and
\* a call that begins with manifest.json present reads it and migrates nothing.
C12_MigrationKeepsLegacyIndexes ==
    \A c \in Callers :
        /\ (op[c] = "load_or_create_manifest" /\ LegacyOnlyAtStart(c)) =>
            /\ \A i \in DOMAIN trace[c] :
                    trace[c][i].method = "delete" =>
                        \E j \in 1..(i - 1) :
                            trace[c][j] = Call("put", MANIFEST_FILE_NAME, NoError)
            /\ \/ files[LEGACY_MANIFEST_FILE_NAME] = pre[c][LEGACY_MANIFEST_FILE_NAME]
               \/ LET decoded == DeserializeManifest(files[MANIFEST_FILE_NAME])
                  IN  /\ decoded.kind = "ok"
                      /\ IsMigrationOf(decoded.value, pre[c][LEGACY_MANIFEST_FILE_NAME])
            /\ (\E i \in DOMAIN trace[c] :
                        trace[c][i] = Call("put", MANIFEST_FILE_NAME, NoError)) =>
                    files[MANIFEST_FILE_NAME] # NoFile
        /\ (op[c] = "load_or_create_manifest" /\ pre[c][MANIFEST_FILE_NAME] # NoFile) =>
            \A i \in DOMAIN trace[c] :
                /\ trace[c][i].path = MANIFEST_FILE_NAME
                /\ trace[c][i].method \in {"exists", "get_all"}

\* a migration was dropped in its delete, after its write: both files exist and
\* manifest.json holds the legacy indexes
C12_Witness ==
    \E c \in Callers :
        /\ pc[c] = "cancelled"
        /\ LegacyOnlyAtStart(c)
        /\ trace[c][Len(trace[c])] = Call("delete", LEGACY_MANIFEST_FILE_NAME, Cancelled)
        /\ files[LEGACY_MANIFEST_FILE_NAME] = pre[c][LEGACY_MANIFEST_FILE_NAME]
        /\ DOMAIN pre[c][LEGACY_MANIFEST_FILE_NAME].indexes # {}
        /\ DeserializeManifest(files[MANIFEST_FILE_NAME]).kind = "ok"
        /\ IsMigrationOf(DeserializeManifest(files[MANIFEST_FILE_NAME]).value,
                         pre[c][LEGACY_MANIFEST_FILE_NAME])

\* C16: nothing excludes one caller from another.  With two callers interleaved at
\* their storage calls, every save_manifest succeeds and replaces manifest.json by
\* the manifest of its caller whatever another caller wrote since that manifest was
\* loaded, so the last writer wins and the update of the other caller is lost; and
\* a load_or_create_manifest that has seen the legacy file writes its migration
\* whatever another caller has written meanwhile, so both callers can migrate.
C16_LastWriterWins ==
    [][ \A c \in Callers :
            /\ (pc[c] = "idle" /\ op'[c] = "save_manifest") =>
                    /\ result'[c] = Ok(Unit)
                    /\ files'[MANIFEST_FILE_NAME] \in to_json_bytes_pretty(held'[c].value)
            /\ (pc[c] = "put_migrated" /\ pc'[c] # "put_migrated") =>
                    /\ pc'[c] = "delete_legacy"
                    /\ files'[MANIFEST_FILE_NAME] \in to_json_bytes_pretty(manifest[c].value)
                    /\ history'.writes <= Cardinality(Callers) ]_vars

\* both callers have saved with success a manifest that differs from the other's,
\* and an index that one of them saved is not in manifest.json
C16_Witness ==
    /\ \A c \in Callers : Returned(c, "save_manifest") /\ result[c] = Ok(Unit)
    /\ \E c \in Callers :
        /\ files[MANIFEST_FILE_NAME] \notin to_json_bytes_pretty(held[c].value)
        /\ \E i \in DOMAIN held[c].value.indexes :
                i \notin DOMAIN files[MANIFEST_FILE_NAME].indexes

\* both callers have seen the legacy file and both have written the migration
C16_BothMigrate ==
    /\ history.writes = 2
    /\ \A c \in Callers :
        /\ op[c] = "load_or_create_manifest"
        /\ \E i \in DOMAIN trace[c] : trace[c][i] = Call("put", MANIFEST_FILE_NAME, NoError)
        /\ \E i \in DOMAIN trace[c] :
                trace[c][i] = Call("exists", LEGACY_MANIFEST_FILE_NAME, NoError)

\* the store of the unsynchronized callers held at first only a legacy file that
\* decodes and has at least one index, and no save_manifest was called since
LegacyOnlyStore ==
    /\ history.legacy.kind = "flat"
    /\ DeserializeLegacyManifest(history.legacy).kind = "ok"
    /\ DOMAIN history.legacy.indexes # {}

\* the call of caller c has returned the manifest m
ReturnedManifest(c, m) ==
    Returned(c, "load_or_create_manifest") /\ result[c] = Ok(Loaded(m))

\* manifest.json decodes to a manifest that satisfies P
ManifestFileHolds(P(_)) ==
    LET decoded == DeserializeManifest(files[MANIFEST_FILE_NAME])
    IN  decoded.kind = "ok" /\ P(decoded.value)

\* m is the migration of the legacy file the store held at first
IsMigrated(m) == IsMigrationOf(m, history.legacy)
\* m is the empty manifest of a first access
IsDefault(m) == m = DefaultManifest

\* C17 as stated: for two unsynchronized load_or_create_manifest calls on a store
\* that holds at first only a legacy file with at least one index, with no storage
\* failure injected, every call that returns Ok returns the migrated legacy
\* indexes, and once both calls have finished manifest.json holds those indexes.
C17_MigratedContentKept ==
    LegacyOnlyStore =>
        /\ \A c \in Callers :
            (Returned(c, "load_or_create_manifest") /\ result[c].kind = "ok") =>
                IsMigrated(result[c].value.manifest)
        /\ (\A c \in Callers : Returned(c, "load_or_create_manifest")) =>
                ManifestFileHolds(IsMigrated)

\* C17, amended: every call that returns Ok returns the migrated legacy indexes,
\* unless it looked for the legacy file only after the other call had deleted it:
\* such a call finds neither file, returns the empty default manifest and writes
\* it over manifest.json.  Once both calls have finished, manifest.json holds the
\* migrated indexes when no call returned the empty manifest, and the empty
\* manifest otherwise; at least one call has returned the migrated indexes.
C17_MigratedOrOverwritten ==
    LegacyOnlyStore =>
        /\ \A c \in Callers :
            (Returned(c, "load_or_create_manifest") /\ result[c].kind = "ok") =>
                \/ IsMigrated(result[c].value.manifest)
                \/ /\ IsDefault(result[c].value.manifest)
                   /\ trace[c] = << Call("exists", MANIFEST_FILE_NAME, NoError),
                                    Call("exists", LEGACY_MANIFEST_FILE_NAME, NoError),
                                    Call("put", MANIFEST_FILE_NAME, NoError) >>
                   /\ pre[c][LEGACY_MANIFEST_FILE_NAME] = history.legacy
                   /\ files[LEGACY_MANIFEST_FILE_NAME] = NoFile
        /\ (\A c \in Callers : Returned(c, "load_or_create_manifest")) =>
                /\ \E c \in Callers :
                        /\ result[c].kind = "ok"
                        /\ IsMigrated(result[c].value.manifest)
                /\ IF \E c \in Callers : ReturnedManifest(c, DefaultManifest)
                   THEN ManifestFileHolds(IsDefault)
                   ELSE ManifestFileHolds(IsMigrated)

\* both calls have finished: one returned the migrated indexes, the other the
\* empty manifest, and manifest.json holds the empty manifest
C17_Witness ==
    /\ LegacyOnlyStore
    /\ \A c \in Callers : Returned(c, "load_or_create_manifest") /\ result[c].kind = "ok"
    /\ \E c \in Callers : IsMigrated(result[c].value.manifest)
    /\ \E c \in Callers : ReturnedManifest(c, DefaultManifest)
    /\ ManifestFileHolds(IsDefault)
    /\ files[LEGACY_MANIFEST_FILE_NAME] = NoFile

\* the template identifiers of the sequence s increase strictly
IsStrictlyAscending(s) ==
    \A i, j \in DOMAIN s : i < j => s[i].template_id < s[j].template_id

\* the sequence s of numbers increases strictly
IsAscending(s) == \A i, j \in DOMAIN s : i < j => s[i] < s[j]

\* C18: encoding always produces the envelope tagged "0.7", with the templates of
\* the manifest, each once, as a sequence sorted strictly ascending by
\* template_id, and with the index entries of the manifest, each once, in
\* ascending order of index id and with the canonical status string; the manifest
\* therefore has exactly one encoding, whatever the order in which the template
\* map yields its values.
C18_SortedEncoding ==
    codec.phase = "encoded" =>
        /\ codec.bytes.kind = "versioned"
        /\ codec.bytes.version = "0.7"
        /\ IsStrictlyAscending(codec.bytes.templates)
        /\ Len(codec.bytes.templates) = Cardinality(DOMAIN codec.input.value.templates)
        /\ \A k \in DOMAIN codec.input.value.templates :
                \E i \in DOMAIN codec.bytes.templates :
                    codec.bytes.templates[i] = codec.input.value.templates[k]
        /\ IsAscending(codec.bytes.index_keys)
        /\ {codec.bytes.index_keys[i] : i \in DOMAIN codec.bytes.index_keys}
                = DOMAIN codec.input.value.indexes
        /\ DOMAIN codec.bytes.indexes = DOMAIN codec.input.value.indexes
        /\ \A i \in DOMAIN codec.bytes.indexes :
                codec.bytes.indexes[i] = SerializeIndexStatus(codec.input.value.indexes[i])
        /\ to_json_bytes_pretty(codec.input.value) = {codec.bytes}

\* a manifest with two indexes and two templates has been encoded: the index
\* entries and the templates stand in ascending order of their identifiers
C18_Witness ==
    /\ codec.phase = "encoded"
    /\ Cardinality(DOMAIN codec.input.value.templates) = 2
    /\ Len(codec.bytes.templates) = 2
    /\ codec.bytes.templates[1].template_id < codec.bytes.templates[2].template_id
    /\ Len(codec.bytes.index_keys) = 2
    /\ codec.bytes.index_keys[1] < codec.bytes.index_keys[2]

\* C19: decoding a current-format document whose template sequence holds several
\* templates with the same template_id does not fail: the decoded manifest has
\* one entry per distinct template_id, under that identifier, and the entry is the
\* last template of the sequence that carries the identifier.
C19_DuplicatesCollapse ==
    (/\ codec.phase = "json_decoded"
     /\ codec.bytes.version = CurrentVersion
     /\ \A i \in DOMAIN codec.bytes.indexes : KnownStatusString(codec.bytes.indexes[i])) =>
        /\ codec.output.kind = "ok"
        /\ DOMAIN codec.output.value.templates =
                {codec.bytes.templates[i].template_id : i \in DOMAIN codec.bytes.templates}
        /\ \A i \in DOMAIN codec.bytes.templates :
                LET id == codec.bytes.templates[i].template_id
                IN  (\A j \in DOMAIN codec.bytes.templates :
                        j > i => codec.bytes.templates[j].template_id # id) =>
                            codec.output.value.templates[id] = codec.bytes.templates[i]

\* a document with two different templates of the same template_id has been
\* decoded: the manifest has the second one, and one entry
C19_Witness ==
    /\ codec.phase = "json_decoded"
    /\ codec.output.kind = "ok"
    /\ Len(codec.bytes.templates) = 2
    /\ codec.bytes.templates[1].template_id = codec.bytes.templates[2].template_id
    /\ codec.bytes.templates[1] # codec.bytes.templates[2]
    /\ Cardinality(DOMAIN codec.output.value.templates) = 1
    /\ codec.output.value.templates[codec.bytes.templates[2].template_id]
            = codec.bytes.templates[2]

====
